---- MODULE Spec2Model ----
(***************************************************************************)
(* Polygon netflow indexer: the ingestion pipeline (run_indexer and        *)
(* handle_log), the SQLite statements it issues, the query handler         *)
(* (netflow_handler) with its decimal rendering, and the two tasks main    *)
(* joins.                                                                   *)
(*                                                                          *)
(* Numbers wider than a machine word (U256 amounts, SQLite 64-bit          *)
(* INTEGERs, the TEXT counters) are carried as their decimal digits, most   *)
(* significant first, so that 2^63 and 2^256 are exact.  A number is a      *)
(* sequence over 0..9 without leading zeros (<<0>> is zero); a TEXT value   *)
(* is a sequence of one-character strings.                                  *)
(***************************************************************************)
EXTENDS Integers, Sequences, FiniteSets, Bags

\* ------------------------------------------------------------------------
\* Bounds of the model
\* ------------------------------------------------------------------------

\* Number of logs the subscription delivers before it can only end.
MaxEvents == 2

\* ------------------------------------------------------------------------
\* Decimal numbers and text
\* ------------------------------------------------------------------------

DigitChars == <<"0", "1", "2", "3", "4", "5", "6", "7", "8", "9">>

DigitChar(d) == DigitChars[d + 1]

IsDigit(c) == \E d \in 0..9 : DigitChars[d + 1] = c

DigitVal(c) == CHOOSE d \in 0..9 : DigitChars[d + 1] = c

RECURSIVE StripZeros(_)
StripZeros(n) ==
    IF Len(n) > 1 /\ Head(n) = 0 THEN StripZeros(Tail(n)) ELSE n

\* Exact sum of two numbers, digit by digit from the right.  The carry into
\* a place is 1 when a place below it produces one and every place between
\* passes it on.
BigAdd(a, b) ==
    LET n    == IF Len(a) >= Len(b) THEN Len(a) ELSE Len(b)
        x(i) == IF i <= Len(a) THEN a[Len(a) + 1 - i] ELSE 0
        y(i) == IF i <= Len(b) THEN b[Len(b) + 1 - i] ELSE 0
        c(i) == IF \E j \in 1..(i - 1) :
                      /\ x(j) + y(j) >= 10
                      /\ \A k \in (j + 1)..(i - 1) : x(k) + y(k) = 9
                THEN 1 ELSE 0
        m    == n + c(n + 1)
    IN  [p \in 1..m |->
            IF p = 1 /\ m > n THEN 1
            ELSE (x(m + 1 - p) + y(m + 1 - p) + c(m + 1 - p)) % 10]

BigLess(a, b) ==
    \/ Len(a) < Len(b)
    \/ /\ Len(a) = Len(b)
       /\ \E i \in 1..Len(a) :
            /\ a[i] < b[i]
            /\ \A j \in 1..(i - 1) : a[j] = b[j]

BigLeq(a, b) == a = b \/ BigLess(a, b)

\* U256::to_string (indexer.rs:79): the decimal digits as characters.
to_string(n) == [i \in 1..Len(n) |-> DigitChar(n[i])]

\* ------------------------------------------------------------------------
\* SQLite value semantics used by the two UPDATE statements
\* ------------------------------------------------------------------------

\* Largest SQLite INTEGER, 2^63 - 1.
I64_MAX == <<9,2,2,3,3,7,2,0,3,6,8,5,4,7,7,5,8,0,7>>

RECURSIVE DigitPrefix(_)
DigitPrefix(t) ==
    IF t = <<>> \/ ~IsDigit(Head(t))
    THEN <<>>
    ELSE <<DigitVal(Head(t))>> \o DigitPrefix(Tail(t))

\* CAST(text AS INTEGER): the longest prefix that reads as an integer, 0 when
\* there is none, and exactly 2^63 - 1 when the prefix is larger than that.
\* (Only unsigned text reaches the statements: U256 amounts and their sums.)
CastInteger(t) ==
    LET p == DigitPrefix(t)
        n == IF p = <<>> THEN <<0>> ELSE StripZeros(p)
    IN  IF BigLess(I64_MAX, n) THEN I64_MAX ELSE n

\* INTEGER + INTEGER: 64-bit addition; on overflow SQLite redoes the addition
\* in floating point and the result is a REAL.
SqlAdd(x, y) ==
    LET s == BigAdd(x, y)
    IN  IF BigLess(I64_MAX, s)
        THEN [type |-> "real", val |-> s]
        ELSE [type |-> "integer", val |-> s]

RECURSIVE StripTrailingZeros(_)
StripTrailingZeros(m) ==
    IF Len(m) > 1 /\ m[Len(m)] = 0
    THEN StripTrailingZeros(SubSeq(m, 1, Len(m) - 1))
    ELSE m

\* CAST(real AS TEXT) renders with "%!.15g".  A REAL arises here only from an
\* overflowed addition, so v >= 2^63 has 19 or 20 digits and the rendering is
\* d.ddddddddddddddde+XX: 15 significant digits, trailing zeros of the
\* fraction removed but one kept.  The binary rounding of the double (below
\* 2^12 at this magnitude) is under the 15-digit resolution and is left out.
RealToText(v) ==
    LET first == SubSeq(v, 1, 15)
        up    == Len(v) > 15 /\ v[16] >= 5
        r     == IF up THEN BigAdd(first, <<1>>) ELSE first
        m     == SubSeq(r, 1, 15)
        exp   == (Len(v) - 1) + (IF Len(r) > 15 THEN 1 ELSE 0)
        frac  == StripTrailingZeros(SubSeq(m, 2, 15))
    IN  <<DigitChar(m[1]), ".">> \o to_string(frac) \o <<"e", "+">>
          \o <<DigitChar(exp \div 10), DigitChar(exp % 10)>>

\* CAST(value AS TEXT)
CastText(v) ==
    IF v.type = "integer" THEN to_string(v.val) ELSE RealToText(v.val)

\* The SET expression of both UPDATE statements (indexer.rs:110 and :121):
\* CAST((CAST(counter AS INTEGER) + CAST(? AS INTEGER)) AS TEXT)
UpdateExpr(counter, amount_str) ==
    CastText(SqlAdd(CastInteger(counter), CastInteger(amount_str)))

\* ------------------------------------------------------------------------
\* Values the pipeline handles
\* ------------------------------------------------------------------------

\* Option<T>: None is the empty sequence, Some(v) the one-element sequence.
None == <<>>

Some(v) == <<v>>

\* Option::unwrap_or_default
unwrap_or_default(o, default) == IF o = None THEN default ELSE o[1]

\* H160 and H256 values are written as their lowercase hex digits (shortened
\* to the leading digits); "{:#x}" prefixes them with 0x.
MemberAddr == "f977814e"

OtherAddr == "00000000"

Addresses == {MemberAddr, OtherAddr}

ZeroHash == "00000000"

TxA == "aaaaaaaa"

TOKEN == "455e53cb"

TRANSFER_TOPIC == "ddf252ad"

LowerHex ==
    [h \in Addresses \cup {ZeroHash, TxA, TOKEN} |->
        CASE h = MemberAddr -> "0xf977814e"
          [] h = OtherAddr  -> "0x00000000"
          [] h = TxA        -> "0xaaaaaaaa"
          [] h = TOKEN      -> "0x455e53cb"]

to_checksum_lower(a) == LowerHex[a]

\* The baked-in seed list, as written (mixed case), shortened like the rest.
DEFAULT_BINANCE ==
    {"0xF977814e", "0xe7804c37", "0x505e7169",
     "0x290275e3", "0xD5C08681", "0x082489A6"}

\* str::to_lowercase, and SQL lower(), on the strings that occur.
to_lowercase(s) ==
    CASE s = "0xF977814e" -> "0xf977814e"
      [] s = "0xD5C08681" -> "0xd5c08681"
      [] s = "0x082489A6" -> "0x082489a6"
      [] OTHER            -> s

\* exchange_addresses after upsert_exchange_addresses(&db, &DEFAULT_BINANCE).
exchange_addresses == {to_lowercase(a) : a \in DEFAULT_BINANCE}

\* The SELECT without its WHERE clause: any row of the table answers.
is_exchange_any(addr) == exchange_addresses # {}

\* SELECT 1 FROM exchange_addresses WHERE lower(address)=lower(?) LIMIT 1
is_exchange(addr) ==
    \E address \in exchange_addresses :
        to_lowercase(address) = to_lowercase(LowerHex[addr])

\* CONFIRMATIONS is unset or unparsable.
DefaultConfirmations == 20

ConfirmationsValues == {0, DefaultConfirmations}

\* Block numbers of delivered logs and heads the provider reports.
BlockNumbers == {5, 6, 10}

HeadValues == {4, 25, 26}

U256_MAX == <<1,1,5,7,9,2,0,8,9,2,3,7,3,1,6,1,9,5,4,2,3,5,7,0,9,8,5,0,0,8,6,8,7,9,0,7,8,5,3,2,6,9,9,8,4,6,6,5,6,4,0,5,6,4,0,3,9,4,5,7,5,8,4,0,0,7,9,1,3,1,2,9,6,3,9,9,3,5>>

\* Transfer values carried in the data of a log: 3 * 10^18 and 2^256 - 1.
Amounts == {<<3,0,0,0,0,0,0,0,0,0,0,0,0,0,0,0,0,0,0>>, U256_MAX}

\* Data that is not one ABI-encoded uint256.
BadData == <<>>

\* Transaction hash and log index of a log: both absent (a pending log), or
\* both present.
LogIds ==
    {[transaction_hash |-> None, log_index |-> None],
     [transaction_hash |-> Some(TxA), log_index |-> Some(0)]}

Log(bn, topics, data, id) ==
    [block_number     |-> bn,
     topics           |-> topics,
     data             |-> data,
     transaction_hash |-> id.transaction_hash,
     log_index        |-> id.log_index]

\* Well-formed Transfer logs.
TransferLogs ==
    {Log(Some(b), <<TRANSFER_TOPIC, f, t>>, a, id) :
        b \in BlockNumbers, f \in Addresses, t \in Addresses,
        a \in Amounts, id \in LogIds}

\* A log without block number, one with too few topics, one with bad data.
MalformedLogs ==
    LET id == [transaction_hash |-> Some(TxA), log_index |-> Some(0)]
    IN  {Log(None, <<TRANSFER_TOPIC, OtherAddr, MemberAddr>>, U256_MAX, id),
         Log(Some(5), <<TRANSFER_TOPIC>>, U256_MAX, id),
         Log(Some(5), <<TRANSFER_TOPIC, OtherAddr, MemberAddr>>, BadData, id)}

\* Logs the subscription can deliver.
Logs == TransferLogs \cup MalformedLogs

\* The logs of one recipient and amount: every block number, with and
\* without transaction hash.
GateLogs ==
    {l \in Logs :
        /\ Len(l.topics) = 3 => l.topics[3] = MemberAddr
        /\ l.data \in {BadData, U256_MAX}}

\* One exchange-to-exchange transfer and one log without block number.
ProcLogs ==
    {l \in Logs :
        /\ Len(l.topics) = 3 /\ l.topics[2] = MemberAddr /\ l.topics[3] = MemberAddr
        /\ l.data = U256_MAX
        /\ l.block_number \in {None, Some(5)}
        /\ l.transaction_hash # None}

\* u64::saturating_sub
saturating_sub(a, b) == IF a >= b THEN a - b ELSE 0

IsFinalStrict(h, bn, conf) == saturating_sub(h, bn) > conf

\* The finality test of handle_log: true when the log is final enough.
IsFinal(h, bn, conf) == ~(saturating_sub(h, bn) < conf)

InsertOrReplace(table, row) ==
    {r \in table : ~(r.tx_hash = row.tx_hash /\ r.log_index = row.log_index)}
        \cup {row}

\* INSERT OR IGNORE INTO erc20_transfers ... PRIMARY KEY (tx_hash, log_index)
InsertOrIgnore(table, row) ==
    IF \E r \in table : r.tx_hash = row.tx_hash /\ r.log_index = row.log_index
    THEN table
    ELSE table \cup {row}

\* last_block = ? in place of the MAX.
AssignLastBlock(lb, block_number) == Some(block_number)

\* MAX(COALESCE(last_block, 0), ?)
MaxLastBlock(lb, block_number) ==
    LET cur == unwrap_or_default(lb, 0)
    IN  Some(IF cur >= block_number THEN cur ELSE block_number)

\* ------------------------------------------------------------------------
\* netflow_handler: arbitrary-precision integers and their rendering
\* ------------------------------------------------------------------------

\* A rug::Integer: sign and magnitude.  Zero has no sign.
Integer(neg, mag) == [neg |-> neg /\ mag # <<0>>, mag |-> mag]

\* Integer::default()
Zero == Integer(FALSE, <<0>>)

\* The digits of a magnitude without their leading zeros.
Normalize(n) ==
    LET nz == {i \in 1..Len(n) : n[i] # 0}
    IN  IF nz = {}
        THEN <<0>>
        ELSE SubSeq(n, CHOOSE i \in nz : \A j \in nz : i <= j, Len(n))

\* Exact difference a - b of two magnitudes, a >= b, digit by digit from the
\* right.  A place borrows from the next when a place below it falls short
\* and every place between is level.
BigSub(a, b) ==
    LET x(i) == a[Len(a) + 1 - i]
        y(i) == IF i <= Len(b) THEN b[Len(b) + 1 - i] ELSE 0
        c(i) == IF \E j \in 1..(i - 1) :
                      /\ x(j) < y(j)
                      /\ \A k \in (j + 1)..(i - 1) : x(k) = y(k)
                THEN 1 ELSE 0
    IN  Normalize([p \in 1..Len(a) |->
            LET i == Len(a) + 1 - p
            IN  (x(i) - y(i) - c(i) + 10) % 10])

\* &in_int - &out_int
IntSub(a, b) ==
    IF a.neg # b.neg
    THEN Integer(a.neg, BigAdd(a.mag, b.mag))
    ELSE IF BigLess(a.mag, b.mag)
    THEN Integer(~a.neg, BigSub(b.mag, a.mag))
    ELSE Integer(a.neg, BigSub(a.mag, b.mag))

\* Integer::from_str_radix(src, 10): an optional sign, then one or more
\* digits; None is the Err of any other text.
from_str_radix(src) ==
    LET signed == src # <<>> /\ Head(src) \in {"-", "+"}
        body   == IF signed THEN Tail(src) ELSE src
    IN  IF body # <<>> /\ \A i \in 1..Len(body) : IsDigit(body[i])
        THEN Some(Integer(signed /\ Head(src) = "-",
                      Normalize([i \in 1..Len(body) |-> DigitVal(body[i])])))
        ELSE None

\* Integer::to_string_radix(10), and "{}" of an Integer: a minus sign when
\* negative, then the digits.
to_string_radix(x) ==
    (IF x.neg THEN <<"-">> ELSE <<>>) \o to_string(x.mag)

\* let decimals: u32 = 18
decimals == 18

\* x.div_rem(ten.pow(k)): quotient and remainder of the division that rounds
\* towards zero, both with the sign of x.  Dividing by 10^k splits the
\* decimal digits k places from the right.
div_rem(x, k) ==
    LET n == Len(x.mag)
        q == IF n > k THEN SubSeq(x.mag, 1, n - k) ELSE <<0>>
        r == IF n > k THEN Normalize(SubSeq(x.mag, n - k + 1, n)) ELSE x.mag
    IN  <<Integer(x.neg, q), Integer(x.neg, r)>>

\* "0".repeat(pad)
repeat_zero(pad) == [i \in 1..pad |-> "0"]

\* while frac.ends_with('0') { frac.pop(); }
pop_zeros(frac) ==
    LET keep == {i \in 1..Len(frac) : frac[i] # "0"}
    IN  IF keep = {}
        THEN <<>>
        ELSE SubSeq(frac, 1, CHOOSE i \in keep : \A j \in keep : j <= i)

\* The closure without its left padding.
fmt_unpadded(x) ==
    LET q == div_rem(x, decimals)[1]
        r == div_rem(x, decimals)[2]
    IN  IF r = Zero
        THEN to_string_radix(q)
        ELSE to_string_radix(q) \o <<".">> \o pop_zeros(to_string_radix(r))

\* The closure fmt of netflow_handler.
fmt(x) ==
    LET q    == div_rem(x, decimals)[1]
        r    == div_rem(x, decimals)[2]
        frac == to_string_radix(r)
        pad  == decimals - Len(frac)
    IN  IF r = Zero
        THEN to_string_radix(q)
        ELSE to_string_radix(q) \o <<".">>
               \o pop_zeros(IF Len(frac) < decimals
                            THEN repeat_zero(pad) \o frac
                            ELSE frac)

\* .unwrap_or(("1", "1", None)) in place of the zeros.
unwrap_or_ones(fetched) ==
    IF fetched = None THEN <<<<"1">>, <<"1">>, None>> ELSE fetched[1]

\* fetch_one(..).await.unwrap_or(("0".into(), "0".into(), None))
unwrap_or_zeros(fetched) ==
    IF fetched = None THEN <<<<"0">>, <<"0">>, None>> ELSE fetched[1]

\* The NetflowOut the handler builds from what it fetched.
NetflowOut(fetched) ==
    LET in_wei  == unwrap_or_zeros(fetched)[1]
        out_wei == unwrap_or_zeros(fetched)[2]
        in_int  == unwrap_or_default(from_str_radix(in_wei), Zero)
        out_int == unwrap_or_default(from_str_radix(out_wei), Zero)
        net     == IntSub(in_int, out_int)
    IN  [symbol         |-> "POL",
         decimals       |-> decimals,
         cumulative_in  |-> fmt(in_int),
         cumulative_out |-> fmt(out_int),
         cumulative_net |-> fmt(net),
         last_block     |-> unwrap_or_zeros(fetched)[3]]

\* Texts the two counter columns of a database file can hold: 0, 1 wei,
\* 0.5, 1.000000000000000001, 1.5, 2 and 3 tokens, 2^63 - 1, the text of an
\* overflowed sum, and 2^256 - 1.
StoredTexts ==
    {<<"0">>,
     <<"1">>,
     to_string(<<5,0,0,0,0,0,0,0,0,0,0,0,0,0,0,0,0,0>>),
     to_string(<<1,0,0,0,0,0,0,0,0,0,0,0,0,0,0,0,0,0,1>>),
     to_string(<<1,5,0,0,0,0,0,0,0,0,0,0,0,0,0,0,0,0,0>>),
     to_string(<<2,0,0,0,0,0,0,0,0,0,0,0,0,0,0,0,0,0,0>>),
     to_string(<<3,0,0,0,0,0,0,0,0,0,0,0,0,0,0,0,0,0,0>>),
     to_string(I64_MAX),
     RealToText(BigAdd(I64_MAX, I64_MAX)),
     to_string(U256_MAX)}

\* ------------------------------------------------------------------------
\* State
\* ------------------------------------------------------------------------

VARIABLES
    confirmations,       \* IndexerCfg.confirmations
    erc20_transfers,     \* rows of the table erc20_transfers
    cumulative_in_wei,   \* netflow_state.cumulative_in_wei (TEXT)
    cumulative_out_wei,  \* netflow_state.cumulative_out_wei (TEXT)
    last_block,          \* netflow_state.last_block (NULL is None)
    pc,                  \* where the task running run_indexer is
    lg,                  \* the log handle_log is handling
    head,                \* handle_log's local head
    amount_str,          \* handle_log's local amount_str
    from_is_ex,          \* handle_log's local from_is_ex
    to_is_ex,            \* handle_log's local to_is_ex
    ret,                 \* what handle_log returned, and from where
    pre,                 \* the tables as they were when the log was taken
    applied,             \* how often each UPDATE ran, per transfer
    delivered,           \* logs delivered so far
    api,                 \* where the task running api::serve is
    main,                \* where main is
    netflow_state_rows,  \* number of rows of netflow_state (0 or 1)
    resp                 \* what netflow_handler read and answered last

vars ==
    <<confirmations, erc20_transfers, cumulative_in_wei, cumulative_out_wei,
      last_block, pc, lg, head, amount_str, from_is_ex, to_is_ex, ret, pre,
      applied, delivered, api, main, netflow_state_rows, resp>>

db ==
    <<erc20_transfers, cumulative_in_wei, cumulative_out_wei, last_block,
      netflow_state_rows>>

locals == <<head, amount_str, from_is_ex, to_is_ex>>

tasks == <<api, main, resp>>

\* The key handle_log binds for a log.
KeyOf(l) ==
    <<LowerHex[unwrap_or_default(l.transaction_hash, ZeroHash)],
      unwrap_or_default(l.log_index, 0)>>

\* The state main hands to the two tasks: the schema of init_db with its
\* seeded netflow_state row, and the configured confirmations.
InitOf(confs, serving) ==
    /\ confirmations \in confs
    /\ erc20_transfers = {}
    /\ cumulative_in_wei = <<"0">>
    /\ cumulative_out_wei = <<"0">>
    /\ last_block = None
    /\ pc = "Connecting"
    /\ lg = None
    /\ head = 0
    /\ amount_str = <<>>
    /\ from_is_ex = FALSE
    /\ to_is_ex = FALSE
    /\ ret = None
    /\ pre = None
    /\ applied = [d \in {"in", "out"} |-> EmptyBag]
    /\ delivered = 0
    /\ api = (IF serving THEN "Serving" ELSE "Starting")
    /\ main = "Joining"
    /\ netflow_state_rows = 1
    /\ resp = None

InitWith(confs) == InitOf(confs, FALSE)

Init == InitWith({DefaultConfirmations})

GateInit == InitWith(ConfirmationsValues)

\* handle_log returns res from the place at; run_indexer gets it next.
Return(res, at) ==
    /\ pc' = "Returned"
    /\ ret' = Some([res |-> res, at |-> at])

\* ------------------------------------------------------------------------
\* run_indexer
\* ------------------------------------------------------------------------

\* Ws::connect, get_block_number and subscribe_logs: any of them failing
\* makes run_indexer return Err.
Connect ==
    /\ main = "Joining"
    /\ pc = "Connecting"
    /\ \/ pc' = "Subscribed"
       \/ pc' = "Failed"
    /\ UNCHANGED <<confirmations, db, lg, locals, ret, pre, applied, delivered, tasks>>

\* sub.next() yields Some(log): handle_log is called with it.
NextLogOf(logs) ==
    /\ main = "Joining"
    /\ pc = "Subscribed"
    /\ delivered < MaxEvents
    /\ \E l \in logs : lg' = Some(l)
    /\ pc' = "HeadLookup"
    /\ delivered' = delivered + 1
    /\ pre' = Some([erc20_transfers    |-> erc20_transfers,
                    cumulative_in_wei  |-> cumulative_in_wei,
                    cumulative_out_wei |-> cumulative_out_wei,
                    last_block         |-> last_block])
    /\ UNCHANGED <<confirmations, db, locals, ret, applied, tasks>>

NextLog == NextLogOf(Logs)

GateNextLog == NextLogOf(GateLogs)

ProcNextLog == NextLogOf(ProcLogs)

\* sub.next() yields None: the loop ends and run_indexer returns Ok(()).
StreamEnd ==
    /\ main = "Joining"
    /\ pc = "Subscribed"
    /\ pc' = "Ended"
    /\ UNCHANGED <<confirmations, db, lg, locals, ret, pre, applied, delivered, tasks>>

\* handle_log(..).await? in place of the if let: an Err ends run_indexer.
LoopBoundaryPropagating ==
    /\ main = "Joining"
    /\ pc = "Returned"
    /\ pc' = IF ret[1].res = "Err" THEN "Failed" ELSE "Subscribed"
    /\ lg' = None
    /\ head' = 0
    /\ amount_str' = <<>>
    /\ from_is_ex' = FALSE
    /\ to_is_ex' = FALSE
    /\ ret' = None
    /\ pre' = None
    /\ UNCHANGED <<confirmations, db, applied, delivered, tasks>>

\* if let Err(e) = handle_log(..) { error!(..) }, then back to sub.next().
LoopBoundary ==
    /\ main = "Joining"
    /\ pc = "Returned"
    /\ pc' = "Subscribed"
    /\ lg' = None
    /\ head' = 0
    /\ amount_str' = <<>>
    /\ from_is_ex' = FALSE
    /\ to_is_ex' = FALSE
    /\ ret' = None
    /\ pre' = None
    /\ UNCHANGED <<confirmations, db, applied, delivered, tasks>>

\* ------------------------------------------------------------------------
\* handle_log, one step per await
\* ------------------------------------------------------------------------

\* get_block_number, then the checks and the decoding up to the INSERT.
HeadAndGate ==
    /\ main = "Joining"
    /\ pc = "HeadLookup"
    /\ \/ /\ Return("Err", "get_block_number")
          /\ UNCHANGED <<head, amount_str>>
       \/ \E h \in HeadValues :
            /\ head' = h
            /\ LET l == lg[1]
               IN  IF l.block_number = None
                   THEN Return("Ok", "no_block_number") /\ UNCHANGED amount_str
                   ELSE IF ~IsFinal(h, l.block_number[1], confirmations)
                   THEN Return("Ok", "not_final") /\ UNCHANGED amount_str
                   ELSE IF Len(l.topics) < 3
                   THEN Return("Ok", "topics") /\ UNCHANGED amount_str
                   ELSE IF l.data = BadData
                   THEN Return("Err", "decode") /\ UNCHANGED amount_str
                   ELSE /\ amount_str' = to_string(l.data)
                        /\ pc' = "Insert"
                        /\ ret' = ret
    /\ UNCHANGED <<confirmations, db, lg, from_is_ex, to_is_ex, pre, applied, delivered, tasks>>

\* The row handle_log binds to the INSERT.
RowOf(l, amount) ==
    [tx_hash      |-> KeyOf(l)[1],
     log_index    |-> KeyOf(l)[2],
     block_number |-> l.block_number[1],
     contract     |-> LowerHex[TOKEN],
     from         |-> to_checksum_lower(l.topics[2]),
     to           |-> to_checksum_lower(l.topics[3]),
     amount_wei   |-> amount]

InsertTransfer ==
    /\ main = "Joining"
    /\ pc = "Insert"
    /\ \/ /\ Return("Err", "insert")
          /\ UNCHANGED erc20_transfers
       \/ /\ erc20_transfers' = InsertOrIgnore(erc20_transfers, RowOf(lg[1], amount_str))
          /\ pc' = "IsExchangeFrom"
          /\ ret' = ret
    /\ UNCHANGED <<confirmations, cumulative_in_wei, cumulative_out_wei, last_block,
                   netflow_state_rows, lg, locals, pre, applied, delivered, tasks>>

IsExchangeFrom ==
    /\ main = "Joining"
    /\ pc = "IsExchangeFrom"
    /\ \/ /\ Return("Err", "is_exchange_from")
          /\ UNCHANGED from_is_ex
       \/ /\ from_is_ex' = is_exchange(lg[1].topics[2])
          /\ pc' = "IsExchangeTo"
          /\ ret' = ret
    /\ UNCHANGED <<confirmations, db, lg, head, amount_str, to_is_ex, pre, applied,
                   delivered, tasks>>

IsExchangeTo ==
    /\ main = "Joining"
    /\ pc = "IsExchangeTo"
    /\ \/ /\ Return("Err", "is_exchange_to")
          /\ UNCHANGED to_is_ex
       \/ /\ to_is_ex' = is_exchange(lg[1].topics[3])
          /\ IF to_is_ex'
             THEN pc' = "UpdateIn" /\ ret' = ret
             ELSE IF from_is_ex
             THEN pc' = "UpdateOut" /\ ret' = ret
             ELSE Return("Ok", "end")
    /\ UNCHANGED <<confirmations, db, lg, head, amount_str, from_is_ex, pre, applied,
                   delivered, tasks>>

\* UPDATE netflow_state SET cumulative_in_wei = ..., last_block = ... WHERE id = 1
UpdateIn ==
    /\ main = "Joining"
    /\ pc = "UpdateIn"
    /\ \/ /\ Return("Err", "update_in")
          /\ UNCHANGED <<cumulative_in_wei, last_block, applied>>
       \/ /\ cumulative_in_wei' = UpdateExpr(cumulative_in_wei, amount_str)
          /\ last_block' = MaxLastBlock(last_block, lg[1].block_number[1])
          /\ applied' = [applied EXCEPT !["in"] = @ (+) SetToBag({RowOf(lg[1], amount_str)})]
          /\ IF from_is_ex
             THEN pc' = "UpdateOut" /\ ret' = ret
             ELSE Return("Ok", "end")
    /\ UNCHANGED <<confirmations, erc20_transfers, cumulative_out_wei,
                   netflow_state_rows, lg, locals, pre, delivered, tasks>>

\* UPDATE netflow_state SET cumulative_out_wei = ..., last_block = ... WHERE id = 1
UpdateOut ==
    /\ main = "Joining"
    /\ pc = "UpdateOut"
    /\ \/ /\ Return("Err", "update_out")
          /\ UNCHANGED <<cumulative_out_wei, last_block, applied>>
       \/ /\ cumulative_out_wei' = UpdateExpr(cumulative_out_wei, amount_str)
          /\ last_block' = MaxLastBlock(last_block, lg[1].block_number[1])
          /\ applied' = [applied EXCEPT !["out"] = @ (+) SetToBag({RowOf(lg[1], amount_str)})]
          /\ Return("Ok", "end")
    /\ UNCHANGED <<confirmations, erc20_transfers, cumulative_in_wei,
                   netflow_state_rows, lg, locals, pre, delivered, tasks>>

\* ------------------------------------------------------------------------
\* api::serve and main
\* ------------------------------------------------------------------------

\* axum::Server::bind panics when the address cannot be bound.
ApiBind ==
    /\ main = "Joining"
    /\ api = "Starting"
    /\ \/ api' = "Serving"
       \/ api' = "Panicked"
    /\ UNCHANGED <<confirmations, db, pc, lg, locals, ret, pre, applied, delivered, main,
                   resp>>

\* The server future resolves with an error: serve returns Err.
ApiServeErr ==
    /\ main = "Joining"
    /\ api = "Serving"
    /\ api' = "Failed"
    /\ UNCHANGED <<confirmations, db, pc, lg, locals, ret, pre, applied, delivered, main,
                   resp>>

\* SELECT cumulative_in_wei, cumulative_out_wei, last_block FROM
\* netflow_state WHERE id=1, through fetch_one: None is its Err (RowNotFound
\* when the table has no row).
fetch_one ==
    IF netflow_state_rows = 0
    THEN None
    ELSE Some(<<cumulative_in_wei, cumulative_out_wei, last_block>>)

\* GET /netflow: netflow_handler reads the row in one statement (or the
\* statement fails) and answers from what it read.
Query ==
    /\ main = "Joining"
    /\ api = "Serving"
    /\ \E fetched \in {fetch_one, None} :
         resp' = Some([fetched |-> fetched, out |-> NetflowOut(fetched)])
    /\ UNCHANGED <<confirmations, db, pc, lg, locals, ret, pre, applied, delivered, api,
                   main>>

\* try_join!(indexer_task, api_task)?: resolves early only on a JoinError
\* (a task panicked), else when both tasks have returned; main then
\* returns and the process exits.
MainJoin ==
    /\ main = "Joining"
    /\ \/ api = "Panicked"
       \/ pc \in {"Ended", "Failed"} /\ api = "Failed"
    /\ main' = "Exited"
    /\ UNCHANGED <<confirmations, db, pc, lg, locals, ret, pre, applied, delivered, api,
                   resp>>

\* The steps of the ingestion task other than taking the next log.
Steps ==
    \/ Connect
    \/ StreamEnd
    \/ LoopBoundary
    \/ HeadAndGate
    \/ InsertTransfer
    \/ IsExchangeFrom
    \/ IsExchangeTo
    \/ UpdateIn
    \/ UpdateOut

\* The ingestion task under the default configuration.
Next == NextLog \/ Steps

Spec == Init /\ [][Next]_vars

\* The ingestion task under every confirmations value, on the logs of one
\* transfer shape.
GateNext == GateNextLog \/ Steps

GateSpec == GateInit /\ [][GateNext]_vars

\* The whole process: both tasks and main.
ProcNext == ProcNextLog \/ Steps \/ ApiBind \/ ApiServeErr \/ MainJoin

\* Every await of the ingestion task resolves, bind returns or panics, and
\* main returns once try_join! has resolved.  Nothing makes the stream
\* deliver or end, nor the server fail.
FairSpec ==
    /\ Init
    /\ [][ProcNext]_vars
    /\ WF_vars(Connect)
    /\ WF_vars(LoopBoundary)
    /\ WF_vars(HeadAndGate)
    /\ WF_vars(InsertTransfer)
    /\ WF_vars(IsExchangeFrom)
    /\ WF_vars(IsExchangeTo)
    /\ WF_vars(UpdateIn)
    /\ WF_vars(UpdateOut)
    /\ WF_vars(ApiBind)
    /\ WF_vars(MainJoin)

\* The server is bound and the database file holds any of the stored texts,
\* with or without the netflow_state row (the columns are read only when the
\* row is there).
HandlerInit ==
    /\ confirmations = DefaultConfirmations
    /\ erc20_transfers = {}
    /\ cumulative_in_wei \in StoredTexts
    /\ cumulative_out_wei \in StoredTexts
    /\ last_block \in {None, Some(5)}
    /\ netflow_state_rows \in {0, 1}
    /\ pc = "Connecting"
    /\ lg = None
    /\ head = 0
    /\ amount_str = <<>>
    /\ from_is_ex = FALSE
    /\ to_is_ex = FALSE
    /\ ret = None
    /\ pre = None
    /\ applied = [d \in {"in", "out"} |-> EmptyBag]
    /\ delivered = 0
    /\ api = "Serving"
    /\ main = "Joining"
    /\ resp = None

\* netflow_handler on its own, applied to what the database file holds.
HandlerNext == Query

HandlerSpec == HandlerInit /\ [][HandlerNext]_vars

\* Transfers to the exchange address at block 5, from either sender and of
\* either amount.
ServeLogs ==
    {l \in TransferLogs :
        /\ l.topics[3] = MemberAddr
        /\ l.block_number = Some(5)
        /\ l.transaction_hash # None}

ServeNextLog == NextLogOf(ServeLogs)

ServeInit == InitOf({DefaultConfirmations}, TRUE)

\* The ingestion task and the bound server side by side: a query can be
\* handled between any two steps of handle_log.
ServeNext == ServeNextLog \/ Steps \/ Query

ServeSpec == ServeInit /\ [][ServeNext]_vars

\* ------------------------------------------------------------------------
\* Properties
\* ------------------------------------------------------------------------

\* The log handle_log is handling.
cur == lg[1]

\* The tables as they were when that log was taken.
before == pre[1]

IsDecimal(t) == t # <<>> /\ \A i \in 1..Len(t) : IsDigit(t[i])

\* The number a decimal text denotes.
ParseDecimal(t) == StripZeros([i \in 1..Len(t) |-> DigitVal(t[i])])

\* The number SQLite reads from a stored counter in the next UPDATE.
StoredValue(t) == CastInteger(t)

\* The address is one of the seeded exchange addresses.
IsMember(a) == a = MemberAddr

HasKey(table, l) ==
    \E r \in table : r.tx_hash = KeyOf(l)[1] /\ r.log_index = KeyOf(l)[2]

ReturnedFrom(places) == pc = "Returned" /\ ret[1].at \in places

ReturnedOk == pc = "Returned" /\ ret[1] = [res |-> "Ok", at |-> "end"]

\* handle_log got past the finality test with the log in hand.
PastGate ==
    \/ pc \in {"Insert", "IsExchangeFrom", "IsExchangeTo", "UpdateIn", "UpdateOut"}
    \/ /\ pc = "Returned"
       /\ ret[1].at \notin {"get_block_number", "no_block_number", "not_final"}

\* The UPDATE of cumulative_in_wei (of cumulative_out_wei) ran for the log
\* in hand.
InDone ==
    /\ to_is_ex
    /\ pc = "UpdateOut" \/ ReturnedFrom({"end", "update_out"})

OutDone == from_is_ex /\ ReturnedOk

\* C1: a transfer delivered more than once is added to cumulative_in (and to
\* cumulative_out) once only: no UPDATE runs twice for the same transfer.
ExactlyOnceAccounting ==
    \A d \in {"in", "out"} :
        \A r \in BagToSet(applied[d]) : CopiesIn(r, applied[d]) = 1

\* C2: the ledger holds one row per (tx_hash, log_index) at most, no step
\* removes or changes a row, and the INSERT for a key that is present leaves
\* the table as it is.
LedgerIdempotentAppendOnly ==
    [][/\ erc20_transfers \subseteq erc20_transfers'
       /\ \A r1, r2 \in erc20_transfers' :
            (r1.tx_hash = r2.tx_hash /\ r1.log_index = r2.log_index) => r1 = r2
       /\ (pc = "Insert" /\ HasKey(erc20_transfers, cur))
            => erc20_transfers' = erc20_transfers]_vars

\* The INSERT has run without error for a key that was present, from a log
\* whose fields differ from the row's.
C2Witness ==
    /\ pc = "IsExchangeFrom"
    /\ HasKey(before.erc20_transfers, cur)
    /\ RowOf(cur, amount_str) \notin erc20_transfers

\* C3: an UPDATE that has run leaves the counter at exactly the prior value
\* plus the transfer's amount, for every amount up to 2^256 - 1.
ExactUnboundedAddition ==
    /\ (InDone /\ IsDecimal(before.cumulative_in_wei))
         => cumulative_in_wei
              = to_string(BigAdd(ParseDecimal(before.cumulative_in_wei), cur.data))
    /\ (OutDone /\ IsDecimal(before.cumulative_out_wei))
         => cumulative_out_wei
              = to_string(BigAdd(ParseDecimal(before.cumulative_out_wei), cur.data))

\* C4: the stored counters never decrease from one state to the next.
MonotoneCounters ==
    [][/\ BigLeq(StoredValue(cumulative_in_wei), StoredValue(cumulative_in_wei'))
       /\ BigLeq(StoredValue(cumulative_out_wei), StoredValue(cumulative_out_wei'))]_vars

\* The finality test has been made on a log with a block number.
GateDecided ==
    /\ lg # None
    /\ pc # "HeadLookup"
    /\ cur.block_number # None
    /\ ~ReturnedFrom({"get_block_number"})

\* C5: a log is treated as final exactly when head - B >= confirmations, and
\* no ledger row is written while head < B + confirmations.
FinalityGate ==
    GateDecided =>
        /\ PastGate <=> (head - cur.block_number[1] >= confirmations)
        /\ head < cur.block_number[1] + confirmations
             => erc20_transfers = before.erc20_transfers

\* A well-formed log of block b was handled without error under
\* confirmations = 20 with head = 25.
ExampleCase(b) ==
    /\ pc = "Returned"
    /\ ret[1].res = "Ok"
    /\ confirmations = 20
    /\ head = 25
    /\ cur.block_number = Some(b)
    /\ Len(cur.topics) >= 3

Accepted == ReturnedOk /\ HasKey(erc20_transfers, cur)

Rejected ==
    /\ ReturnedFrom({"not_final"})
    /\ erc20_transfers = before.erc20_transfers

\* C6 as stated: with confirmations = 20 and head = 25 a transfer at block 10
\* is accepted and one at block 6 is rejected.
FinalityGateExample ==
    /\ ExampleCase(10) => Accepted
    /\ ExampleCase(6) => Rejected

\* C6 amended: with confirmations = 20 and head = 25 a transfer at block 5 is
\* accepted, and transfers at block 6 and at block 10 are rejected.
FinalityGateExampleAmended ==
    /\ ExampleCase(5) => Accepted
    /\ ExampleCase(6) => Rejected
    /\ ExampleCase(10) => Rejected

\* The block 5 transfer of the example has been accepted.
C6Witness == ExampleCase(5) /\ Accepted /\ ~HasKey(before.erc20_transfers, cur)

\* C7: a fatal error in either task ends the whole process: once run_indexer
\* has returned (it could not connect or subscribe, or the stream ended), or
\* api::serve has failed, main eventually exits.
FatalErrorTerminatesProcess ==
    /\ (pc \in {"Failed", "Ended"}) ~> (main = "Exited")
    /\ (api \in {"Failed", "Panicked"}) ~> (main = "Exited")

\* C8: whatever handle_log returns, the loop goes back to Subscribed; the
\* task leaves the loop only when the stream ends, and fails only while
\* connecting.
PerEventFailuresDoNotTerminate ==
    [][/\ pc = "Returned" => pc' = "Subscribed"
       /\ pc' = "Ended" => pc = "Subscribed"
       /\ pc' = "Failed" => pc = "Connecting"]_vars

\* A second log is being handled after the first one failed: its row is in
\* the ledger with an exchange recipient, and no UPDATE has run.
C8Witness ==
    /\ pc = "Insert"
    /\ delivered = 2
    /\ applied["in"] = EmptyBag
    /\ \E r \in erc20_transfers : r.to = LowerHex[MemberAddr]

\* C9: a final transfer between two exchange members, handled without
\* error, adds its amount to cumulative_in and to cumulative_out.
SelfTransferSymmetry ==
    (/\ ReturnedOk
     /\ IsMember(cur.topics[2])
     /\ IsMember(cur.topics[3])
     /\ IsDecimal(before.cumulative_in_wei)
     /\ IsDecimal(before.cumulative_out_wei))
    => /\ cumulative_in_wei
            = to_string(BigAdd(ParseDecimal(before.cumulative_in_wei), cur.data))
       /\ cumulative_out_wei
            = to_string(BigAdd(ParseDecimal(before.cumulative_out_wei), cur.data))

\* The log in hand is a decodable transfer between two non-members.
NonMemberTransfer ==
    /\ lg # None
    /\ Len(cur.topics) >= 3
    /\ ~IsMember(cur.topics[2])
    /\ ~IsMember(cur.topics[3])

\* C10: handling a final transfer between two non-members leaves
\* cumulative_in, cumulative_out and last_block as they were, and once it
\* has been handled without error the ledger holds a row under its key.
NonMemberNoOp ==
    NonMemberTransfer =>
        /\ cumulative_in_wei = before.cumulative_in_wei
        /\ cumulative_out_wei = before.cumulative_out_wei
        /\ last_block = before.last_block
        /\ ReturnedOk =>
             /\ HasKey(erc20_transfers, cur)
             /\ ~HasKey(before.erc20_transfers, cur)
                  => erc20_transfers
                       = before.erc20_transfers \cup {RowOf(cur, amount_str)}

\* A final transfer between two non-members has been handled and its row
\* written.
C10Witness ==
    /\ NonMemberTransfer
    /\ ReturnedOk
    /\ RowOf(cur, amount_str) \in erc20_transfers \ before.erc20_transfers

\* netflow_handler has answered from a row it fetched.
Answered == resp # None /\ resp[1].fetched # None

\* The counter texts of that row, and the answer.
FetchedIn == resp[1].fetched[1][1]

FetchedOut == resp[1].fetched[1][2]

Answer == resp[1].out

DotsOf(s) == {i \in 1..Len(s) : s[i] = "."}

IntPart(s) ==
    IF DotsOf(s) = {} THEN s ELSE SubSeq(s, 1, (CHOOSE i \in DotsOf(s) : TRUE) - 1)

FracPart(s) ==
    IF DotsOf(s) = {} THEN <<>> ELSE SubSeq(s, (CHOOSE i \in DotsOf(s) : TRUE) + 1, Len(s))

\* An unsigned decimal: an integer part without needless leading zero, then
\* nothing, or a point and 1 to 18 fractional digits the last of which is
\* not 0.
IsPlainDecimal(s) ==
    /\ Cardinality(DotsOf(s)) <= 1
    /\ IsDecimal(IntPart(s))
    /\ Len(IntPart(s)) > 1 => IntPart(s)[1] # "0"
    /\ DotsOf(s) # {} =>
         /\ IsDecimal(FracPart(s))
         /\ Len(FracPart(s)) <= 18
         /\ FracPart(s)[Len(FracPart(s))] # "0"

\* The raw amount an unsigned decimal denotes: its value times 10^18.
RawOf(s) ==
    ParseDecimal(IntPart(s) \o FracPart(s)
                   \o [i \in 1..(18 - Len(FracPart(s))) |-> "0"])

Renders(x, s) == IsPlainDecimal(s) /\ RawOf(s) = ParseDecimal(x)

\* C11: a non-negative raw amount x is rendered as x div 10^18 followed, only
\* when x mod 10^18 is not 0, by a point and the remainder padded to 18
\* digits without its trailing zeros; the rendering denotes exactly
\* x / 10^18; 1500000000000000000 gives "1.5", 2000000000000000000 gives "2"
\* and 0 gives "0".
DecimalRendering ==
    Answered =>
        /\ IsDecimal(FetchedIn) => Renders(FetchedIn, Answer.cumulative_in)
        /\ IsDecimal(FetchedOut) => Renders(FetchedOut, Answer.cumulative_out)
        /\ FetchedIn = to_string(<<1,5,0,0,0,0,0,0,0,0,0,0,0,0,0,0,0,0,0>>)
             => Answer.cumulative_in = <<"1", ".", "5">>
        /\ FetchedIn = to_string(<<2,0,0,0,0,0,0,0,0,0,0,0,0,0,0,0,0,0,0>>)
             => Answer.cumulative_in = <<"2">>
        /\ FetchedIn = <<"0">> => Answer.cumulative_in = <<"0">>

\* An amount whose remainder needs the padding has been rendered, next to
\* one of more than 64 bits.
C11Witness ==
    /\ Answered
    /\ FetchedIn = to_string(<<1,0,0,0,0,0,0,0,0,0,0,0,0,0,0,0,0,0,1>>)
    /\ Len(Answer.cumulative_in) = 20
    /\ FetchedOut = to_string(U256_MAX)

\* The log in hand is a decodable transfer from a non-member to a member
\* (from a member to a non-member).
InboundOnly ==
    /\ lg # None
    /\ Len(cur.topics) >= 3
    /\ ~IsMember(cur.topics[2])
    /\ IsMember(cur.topics[3])

OutboundOnly ==
    /\ lg # None
    /\ Len(cur.topics) >= 3
    /\ IsMember(cur.topics[2])
    /\ ~IsMember(cur.topics[3])

\* The log was taken in the freshly seeded state.
FromFresh ==
    /\ before.erc20_transfers = {}
    /\ before.cumulative_in_wei = <<"0">>
    /\ before.cumulative_out_wei = <<"0">>
    /\ before.last_block = None

\* C12: from the freshly seeded state, one final transfer of amount a at
\* block B from a non-member to a member, handled without error, leaves
\* cumulative_in at a, cumulative_out at 0 and last_block at B; no inbound-only
\* transfer changes cumulative_out and no outbound-only one cumulative_in.
FreshInboundTransfer ==
    /\ (InboundOnly /\ FromFresh /\ ReturnedOk) =>
         /\ cumulative_in_wei = to_string(cur.data)
         /\ cumulative_out_wei = <<"0">>
         /\ last_block = cur.block_number
    /\ InboundOnly => cumulative_out_wei = before.cumulative_out_wei
    /\ OutboundOnly => cumulative_in_wei = before.cumulative_in_wei

\* Block numbers of the transfers an UPDATE has run for.
AggregatedBlocks ==
    {r.block_number : r \in BagToSet(applied["in"]) \cup BagToSet(applied["out"])}

\* C13: last_block is null exactly when no UPDATE has run for any transfer,
\* and is otherwise the largest block number among the transfers an UPDATE
\* has run for, in whatever order they arrived; once set it never decreases.
LastBlockIsMax ==
    /\ [](IF AggregatedBlocks = {}
          THEN last_block = None
          ELSE /\ last_block # None
               /\ last_block[1] \in AggregatedBlocks
               /\ \A b \in AggregatedBlocks : b <= last_block[1])
    /\ [][last_block # None =>
            /\ last_block' # None
            /\ last_block'[1] >= last_block[1]]_vars

\* A transfer of block 5 has been aggregated after one of block 6.
C13Witness ==
    /\ pc = "Returned"
    /\ InDone
    /\ cur.block_number = Some(5)
    /\ before.last_block = Some(6)
    /\ last_block = Some(6)

\* C14: a query handled while netflow_state has no row is answered, with
\* cumulative_in, cumulative_out and cumulative_net "0" and last_block null.
MissingRowFallback ==
    [][(netflow_state_rows = 0 /\ resp' # resp) =>
         /\ resp' # None
         /\ resp'[1].out.cumulative_in = <<"0">>
         /\ resp'[1].out.cumulative_out = <<"0">>
         /\ resp'[1].out.cumulative_net = <<"0">>
         /\ resp'[1].out.last_block = None]_vars

\* A query has been answered from a table without its row.
C14Witness ==
    /\ netflow_state_rows = 0
    /\ resp # None
    /\ fetch_one = None
    /\ Answer.cumulative_net = <<"0">>

\* C15: when handle_log has returned an error for a log, whichever step
\* failed, cumulative_in, cumulative_out and last_block are what they were
\* when the log was taken.
FailedEventSkippedWhole ==
    (pc = "Returned" /\ ret[1].res = "Err") =>
        /\ cumulative_in_wei = before.cumulative_in_wei
        /\ cumulative_out_wei = before.cumulative_out_wei
        /\ last_block = before.last_block

\* C16: with queries handled between any two steps of handle_log, a log
\* handled without error leaves each counter it concerns at the value it had
\* when the log was taken plus the amount; a counter changes only in the
\* step of its own UPDATE; and a query changes neither netflow_state nor
\* the ledger.
NoLostUpdates ==
    /\ []((ReturnedOk /\ IsDecimal(before.cumulative_in_wei) /\ IsMember(cur.topics[3]))
            => cumulative_in_wei
                 = to_string(BigAdd(ParseDecimal(before.cumulative_in_wei), cur.data)))
    /\ []((ReturnedOk /\ IsDecimal(before.cumulative_out_wei) /\ IsMember(cur.topics[2]))
            => cumulative_out_wei
                 = to_string(BigAdd(ParseDecimal(before.cumulative_out_wei), cur.data)))
    /\ [][/\ cumulative_in_wei' # cumulative_in_wei => pc = "UpdateIn" /\ resp' = resp
          /\ cumulative_out_wei' # cumulative_out_wei => pc = "UpdateOut" /\ resp' = resp
          /\ resp' # resp => UNCHANGED db]_vars

\* The log in hand arrived before it was final: head - B < confirmations.
ArrivedNotFinal == GateDecided /\ head - cur.block_number[1] < confirmations

IsSignedDecimal(s) ==
    IF s # <<>> /\ Head(s) = "-" THEN IsPlainDecimal(Tail(s)) ELSE IsPlainDecimal(s)

\* The signed decimal s denotes (a - b) / 10^18.
DenotesDifference(s, a, b) ==
    /\ IsSignedDecimal(s)
    /\ IF Head(s) = "-"
       THEN BigAdd(ParseDecimal(a), RawOf(Tail(s))) = ParseDecimal(b)
       ELSE BigAdd(ParseDecimal(b), RawOf(s)) = ParseDecimal(a)

\* C18: cumulative_net of an answer is a well-formed decimal, with a single
\* leading minus sign when negative, that denotes exactly
\* (cumulative_in - cumulative_out) / 10^18 of the row the answer was made
\* from, also when cumulative_out is the larger.
NetIsSignedDifference ==
    (Answered /\ IsDecimal(FetchedIn) /\ IsDecimal(FetchedOut))
        => DenotesDifference(Answer.cumulative_net, FetchedIn, FetchedOut)

\* handle_log is between taking a log and returning.
MidHandling ==
    pc \in {"HeadLookup", "Insert", "IsExchangeFrom", "IsExchangeTo", "UpdateIn", "UpdateOut"}

\* netflow_state as it stood when the last event had been handled and the
\* next had not begun.
BetweenEvents ==
    IF MidHandling
    THEN <<before.cumulative_in_wei, before.cumulative_out_wei, before.last_block>>
    ELSE <<cumulative_in_wei, cumulative_out_wei, last_block>>

\* C19: the row a query reads is netflow_state as it stood between two
\* events: as it is when no log is being handled, and as it was when the log
\* was taken otherwise - never with only one of the two UPDATEs of an
\* exchange-to-exchange transfer applied.
QueriesSeeWholeEvents ==
    [][(resp' # resp /\ resp'[1].fetched # None)
         => resp'[1].fetched[1] = BetweenEvents]_vars

\* Sum of the amounts of a set of ledger rows.
RECURSIVE SumAmounts(_)
SumAmounts(rows) ==
    IF rows = {}
    THEN <<0>>
    ELSE LET r == CHOOSE x \in rows : TRUE
         IN  BigAdd(ParseDecimal(r.amount_wei), SumAmounts(rows \ {r}))

\* C20: whenever no log is being handled, cumulative_in is the sum of the
\* amounts of the ledger rows whose recipient is a member and cumulative_out
\* the sum of those whose sender is a member, after any sequence of
\* deliveries: repeated ones, ones without transaction hash and log index,
\* and ones that failed.
LedgerAgreesWithAggregate ==
    ~MidHandling =>
        /\ cumulative_in_wei
             = to_string(SumAmounts({r \in erc20_transfers : r.to = LowerHex[MemberAddr]}))
        /\ cumulative_out_wei
             = to_string(SumAmounts({r \in erc20_transfers : r.from = LowerHex[MemberAddr]}))

====
